---- MODULE Spec2Model ----
(***************************************************************************)
(* Model of jsonextractor.py: the brace and bracket fragment extractors,   *)
(* main's file outputs, and the command line's prompt with its alarm.      *)
(*                                                                         *)
(* A text is a sequence of one-character strings.  A JSON value is a       *)
(* tagged record [t, v]: "str" (v the characters), "num" (v the digits),   *)
(* "arr" (v the elements), "obj" (v the <<key, value>> pairs in insertion  *)
(* order, keys unique, as a Python dict keeps them).                       *)
(*                                                                         *)
(* Two specifications.  SpecExtract gives the two extractors every text    *)
(* written from at most MaxFragments fragments.  Spec runs the script any  *)
(* number of times into one output directory, each time on an input file   *)
(* that is unreadable or written from at most MaxFileParts fragments.      *)
(*                                                                         *)
(* What the model leaves to the libraries: the texts hold ASCII characters *)
(* only and JSON numbers are unsigned integers; MD5 is not computed (see   *)
(* md5_hexdigest); the text pandas gives a cell of graph.csv is not        *)
(* modelled (see DataFrameCsv); the interpreter's limits (recursion depth, *)
(* memory, disk space) are never reached.                                  *)
(***************************************************************************)
EXTENDS Integers, Sequences, FiniteSets, TLC

\* ------------------------------------------------------------------ bounds

\* Most fragments concatenated into one text given to the extractors.
MaxFragments == 3
\* Most fragments concatenated into the content of one input file.
MaxFileParts == 2

\* -------------------------------------------------------------- characters

Whitespace == {" ", "\n", "\t", "\r"}
Digits == {"0", "1", "2", "3", "4", "5", "6", "7", "8", "9"}
\* Characters json.loads rejects unescaped inside a string (strict mode).
ControlChars == {"\n", "\t", "\r"}

Min(S) == CHOOSE m \in S : \A n \in S : m <= n

\* Index of the first character of s at or after i that is in set, else 0.
FirstIn(s, i, set) ==
    LET S == {j \in i..Len(s) : s[j] \in set}
    IN  IF S = {} THEN 0 ELSE Min(S)

\* Index of the first character of s at or after i that is not in set,
\* else Len(s) + 1.
FirstNotIn(s, i, set) ==
    LET S == {j \in i..Len(s) : s[j] \notin set}
    IN  IF S = {} THEN Len(s) + 1 ELSE Min(S)

RECURSIVE Flatten(_)
Flatten(ss) == IF ss = <<>> THEN <<>> ELSE Head(ss) \o Flatten(Tail(ss))

\* ------------------------------------------------------- re.findall(text)

\* A slip: the greedy pattern open.*close, whose one match runs from the
\* first open to the last close.
FindAllGreedy(text, i, open, close) ==
    LET b == FirstIn(text, i, {open})
        E == IF b = 0 THEN {} ELSE {j \in (b + 1)..Len(text) : text[j] = close}
    IN  IF E = {} THEN <<>>
        ELSE <<SubSeq(text, b, CHOOSE e \in E : \A j \in E : j <= e)>>

\* pattern.findall(text) for the patterns open.*?close with re.DOTALL: the
\* leftmost match starts at the first open at or after i and ends at the
\* first close after it; the scan resumes after the match.
RECURSIVE FindAllFrom(_, _, _, _)
FindAllFrom(text, i, open, close) ==
    LET b == FirstIn(text, i, {open})
        e == IF b = 0 THEN 0 ELSE FirstIn(text, b + 1, {close})
    IN  IF b = 0 \/ e = 0
        THEN <<>>
        ELSE <<SubSeq(text, b, e)>> \o FindAllFrom(text, e + 1, open, close)

json_pattern(text) == FindAllFrom(text, 1, "{", "}")

concept_pattern(text) == FindAllFrom(text, 1, "[", "]")

\* ------------------------------------------------------------- json.loads

NoValue == [t |-> "none", v |-> <<>>]
Fail == [ok |-> FALSE, val |-> NoValue, next |-> 0]
Ok(val, next) == [ok |-> TRUE, val |-> val, next |-> next]

StrVal(chars) == [t |-> "str", v |-> chars]
NumVal(digits) == [t |-> "num", v |-> digits]
ArrVal(elems) == [t |-> "arr", v |-> elems]
ObjVal(pairs) == [t |-> "obj", v |-> pairs]

CharAt(s, i) == IF i >= 1 /\ i <= Len(s) THEN s[i] ELSE "EOF"

\* d[k] = v on a dict: an existing key keeps its place and takes the new
\* value, a new key goes last.
DictSet(pairs, k, v) ==
    IF \E n \in 1..Len(pairs) : pairs[n][1] = k
    THEN [n \in 1..Len(pairs) |->
             IF pairs[n][1] = k THEN <<k, v>> ELSE pairs[n]]
    ELSE Append(pairs, <<k, v>>)

DictKeys(pairs) == [n \in 1..Len(pairs) |-> pairs[n][1]]

DictHas(pairs, k) == \E n \in 1..Len(pairs) : pairs[n][1] = k

DictGet(pairs, k) == pairs[CHOOSE n \in 1..Len(pairs) : pairs[n][1] = k][2]

\* The character a backslash escape stands for (\uXXXX is not modelled: the
\* model's texts hold no 'u' escape).
Unescape(c) ==
    CASE c = "n" -> "\n"
      [] c = "t" -> "\t"
      [] c = "r" -> "\r"
      [] OTHER -> c

Escapable == {"\"", "\\", "/", "n", "t", "r"}

\* py_scanstring from j, the characters decoded so far in acc: ends at the
\* closing quote, fails on an unescaped control character, a bad escape or
\* the end of the text.
RECURSIVE ScanString(_, _, _)
ScanString(s, j, acc) ==
    LET ch == CharAt(s, j)
    IN  IF ch = "EOF" THEN Fail
        ELSE IF ch = "\"" THEN Ok(StrVal(acc), j + 1)
        ELSE IF ch \in ControlChars THEN Fail
        ELSE IF ch = "\\"
        THEN IF CharAt(s, j + 1) \in Escapable
             THEN ScanString(s, j + 2, Append(acc, Unescape(s[j + 1])))
             ELSE Fail
        ELSE ScanString(s, j + 1, Append(acc, ch))

\* A string literal whose opening quote is at i.
ParseString(s, i) == ScanString(s, i + 1, <<>>)

\* An integer literal starting at i: 0, or a nonzero digit and more digits.
ParseNumber(s, i) ==
    IF s[i] = "0" THEN Ok(NumVal(<<"0">>), i + 1)
    ELSE LET e == FirstNotIn(s, i, Digits)
         IN  Ok(NumVal(SubSeq(s, i, e - 1)), e)

RECURSIVE ParseValue(_, _)
RECURSIVE ParseMembers(_, _, _)
RECURSIVE ParseElements(_, _, _)

\* The members of an object, the next key's opening quote expected at i.
ParseMembers(s, i, pairs) ==
    IF CharAt(s, i) # "\"" THEN Fail
    ELSE
    LET key == ParseString(s, i)
    IN  IF ~key.ok THEN Fail
        ELSE
        LET c == FirstNotIn(s, key.next, Whitespace)
        IN  IF CharAt(s, c) # ":" THEN Fail
            ELSE
            LET val == ParseValue(s, FirstNotIn(s, c + 1, Whitespace))
            IN  IF ~val.ok THEN Fail
                ELSE
                LET d == FirstNotIn(s, val.next, Whitespace)
                    got == DictSet(pairs, key.val.v, val.val)
                IN  IF CharAt(s, d) = "}" THEN Ok(ObjVal(got), d + 1)
                    ELSE IF CharAt(s, d) = ","
                    THEN ParseMembers(s, FirstNotIn(s, d + 1, Whitespace), got)
                    ELSE Fail

\* The elements of an array, the next value expected at i.
ParseElements(s, i, elems) ==
    LET val == ParseValue(s, i)
    IN  IF ~val.ok THEN Fail
        ELSE
        LET d == FirstNotIn(s, val.next, Whitespace)
            got == Append(elems, val.val)
        IN  IF CharAt(s, d) = "]" THEN Ok(ArrVal(got), d + 1)
            ELSE IF CharAt(s, d) = ","
            THEN ParseElements(s, FirstNotIn(s, d + 1, Whitespace), got)
            ELSE Fail

\* scan_once at i: a string, an object, an array or a number.
ParseValue(s, i) ==
    LET ch == CharAt(s, i)
    IN  IF ch = "\"" THEN ParseString(s, i)
        ELSE IF ch = "{"
        THEN LET m == FirstNotIn(s, i + 1, Whitespace)
             IN  IF CharAt(s, m) = "}" THEN Ok(ObjVal(<<>>), m + 1)
                 ELSE ParseMembers(s, m, <<>>)
        ELSE IF ch = "["
        THEN LET m == FirstNotIn(s, i + 1, Whitespace)
             IN  IF CharAt(s, m) = "]" THEN Ok(ArrVal(<<>>), m + 1)
                 ELSE ParseElements(s, m, <<>>)
        ELSE IF ch \in Digits THEN ParseNumber(s, i)
        ELSE Fail

\* json.loads(s): one value with whitespace around it and nothing after;
\* ok = FALSE stands for json.JSONDecodeError.
json_loads(s) ==
    LET r == ParseValue(s, FirstNotIn(s, 1, Whitespace))
    IN  IF ~r.ok THEN Fail
        ELSE IF FirstNotIn(s, r.next, Whitespace) # Len(s) + 1 THEN Fail
        ELSE r

\* ---------------------------------------------------------------- hashlib

\* The two hexadecimal digits of a character's code (UTF-8, one byte each for
\* the characters of the model's texts).
CharHex(c) ==
    CASE c = "{" -> <<"7", "b">>
      [] c = "}" -> <<"7", "d">>
      [] c = "[" -> <<"5", "b">>
      [] c = "]" -> <<"5", "d">>
      [] c = "\"" -> <<"2", "2">>
      [] c = ":" -> <<"3", "a">>
      [] c = "," -> <<"2", "c">>
      [] c = " " -> <<"2", "0">>
      [] c = "\n" -> <<"0", "a">>
      [] c = "k" -> <<"6", "b">>
      [] c = "j" -> <<"6", "a">>
      [] c = "x" -> <<"7", "8">>
      [] c = "1" -> <<"3", "1">>
      [] c = "c" -> <<"6", "3">>
      [] c = "h" -> <<"6", "8">>
      [] c = "u" -> <<"7", "5">>
      [] c = "n" -> <<"6", "e">>
      [] c = "_" -> <<"5", "f">>
      [] c = "i" -> <<"6", "9">>
      [] c = "d" -> <<"6", "4">>

\* hashlib.md5(s.encode()).hexdigest().  MD5 itself is not computed: the
\* digest is modelled as collision-free on the model's texts, by the
\* hexadecimal encoding of the text, which like the digest is a string of
\* hexadecimal digits determined by the text alone.
md5_hexdigest(s) == Flatten([n \in 1..Len(s) |-> CharHex(s[n])])

\* ------------------------------------------------- extract_json_from_text

chunk_id == <<"c", "h", "u", "n", "k", "_", "i", "d">>

\* A slip: json_obj.setdefault("chunk_id", ...), which keeps a "chunk_id"
\* the object already has.
TagRecordKeepExisting(json_obj, match) ==
    IF DictHas(json_obj.v, chunk_id) THEN json_obj
    ELSE ObjVal(Append(json_obj.v, <<chunk_id, StrVal(md5_hexdigest(match))>>))

\* json_obj["chunk_id"] = hashlib.md5(match.encode()).hexdigest()
TagRecord(json_obj, match) ==
    ObjVal(DictSet(json_obj.v, chunk_id, StrVal(md5_hexdigest(match))))

\* The loop over the matches: a match that parses is tagged and appended, a
\* match that raises json.JSONDecodeError is skipped.
RECURSIVE CollectJson(_, _)
CollectJson(matches, json_objects) ==
    IF matches = <<>> THEN json_objects
    ELSE LET match == Head(matches)
             r == json_loads(match)
         IN  IF r.ok
             THEN CollectJson(Tail(matches),
                              Append(json_objects, TagRecord(r.val, match)))
             ELSE CollectJson(Tail(matches), json_objects)

extract_json_from_text(text) == CollectJson(json_pattern(text), <<>>)

\* ----------------------------------------------- extract_conceptual_space

\* str.strip(chars): s without its leading and trailing characters in set.
Strip(s, set) ==
    LET b == FirstNotIn(s, 1, set)
        E == {j \in 1..Len(s) : s[j] \notin set}
    IN  IF b > Len(s) THEN <<>>
        ELSE SubSeq(s, b, CHOOSE e \in E : \A j \in E : j <= e)

\* str.split(', ') from i: the pieces between the non-overlapping
\* occurrences of comma-space, found left to right.
RECURSIVE SplitFrom(_, _)
SplitFrom(s, i) ==
    LET S == {j \in i..(Len(s) - 1) : s[j] = "," /\ s[j + 1] = " "}
    IN  IF S = {} THEN <<StrVal(SubSeq(s, i, Len(s)))>>
        ELSE <<StrVal(SubSeq(s, i, Min(S) - 1))>> \o SplitFrom(s, Min(S) + 2)

\* A slip: match[1:-1].split(', '), which removes one bracket a side.
ConceptsOneBracket(match) ==
    ArrVal(SplitFrom(SubSeq(match, 2, Len(match) - 1), 1))

\* concepts = match.strip('[]').split(', ')
Concepts(match) == ArrVal(SplitFrom(Strip(match, {"[", "]"}), 1))

all_concepts == <<"a", "l", "l", " ", "c", "o", "n", "c", "e", "p", "t", "s">>

extract_conceptual_space(text) ==
    LET matches == concept_pattern(text)
    IN  ObjVal(<< <<all_concepts,
                    ArrVal([n \in 1..Len(matches) |-> Concepts(matches[n])])>> >>)

\* ------------------------------------------------------------ input texts

\* A flat object: {"k":1}
FlatObject == <<"{", "\"", "k", "\"", ":", "1", "}">>

\* The same object written with a space: another raw text: { "k":1}
SpacedObject == <<"{", " ", "\"", "k", "\"", ":", "1", "}">>

\* A flat object that already has a chunk_id: {"chunk_id":1}
TaggedObject == <<"{", "\"", "c", "h", "u", "n", "k", "_", "i", "d", "\"", ":", "1", "}">>

\* A flat object with '}' inside a string value: {"k":"}"}
CloseInString == <<"{", "\"", "k", "\"", ":", "\"", "}", "\"", "}">>

\* A flat object with '{' inside a string value: {"j":"{"}
OpenInString == <<"{", "\"", "j", "\"", ":", "\"", "{", "\"", "}">>

\* An object whose value is an object: {"":{}}
NestedObject == <<"{", "\"", "\"", ":", "{", "}", "}">>

\* A flat object whose value is an array of arrays: {"k":[[1, 1]]}
ArrayObject == <<"{", "\"", "k", "\"", ":", "[", "[", "1", ",", " ", "1", "]", "]", "}">>

\* A bracketed concept list: [k, j]
ConceptList == <<"[", "k", ",", " ", "j", "]">>

\* Free text: a lone '{': {
OpenBrace == <<"{">>

\* Free text ending in '}': x}
CloseBrace == <<"x", "}">>

\* Free text: a lone ']': ]
CloseBracket == <<"]">>

\* Free text ending in '[': x[
OpenAfterText == <<"x", "[">>


Objects == {FlatObject, SpacedObject, TaggedObject, CloseInString,
            OpenInString, NestedObject, ArrayObject}

FreeText == {ConceptList, OpenBrace, CloseBrace, CloseBracket,
             OpenAfterText}

Fragments == Objects \cup FreeText

\* The sequences of at most n members of S.
SeqsUpTo(S, n) == UNION {[1..m -> S] : m \in 0..n}

\* ------------------------------------------------------------- json.dumps

\* The text json.dumps gives a string: quoted, with '"', '\' and the control
\* characters escaped (the model's strings are ASCII).
RECURSIVE EscapeFrom(_, _)
EscapeFrom(chars, i) ==
    IF i > Len(chars) THEN <<>>
    ELSE (CASE chars[i] = "\"" -> <<"\\", "\"">>
            [] chars[i] = "\\" -> <<"\\", "\\">>
            [] chars[i] = "\n" -> <<"\\", "n">>
            [] chars[i] = "\t" -> <<"\\", "t">>
            [] chars[i] = "\r" -> <<"\\", "r">>
            [] OTHER -> <<chars[i]>>) \o EscapeFrom(chars, i + 1)

Quoted(chars) == <<"\"">> \o EscapeFrom(chars, 1) \o <<"\"">>

\* A newline and the indentation of a nesting level, four spaces a level.
RECURSIVE Indent(_)
Indent(level) ==
    IF level = 0 THEN <<"\n">> ELSE Indent(level - 1) \o <<" ", " ", " ", " ">>

\* json.dumps(value, indent=4) at a nesting level: an empty container on one
\* line, else one item a line, "," between items and ": " after a key.
RECURSIVE Dumps(_, _)
RECURSIVE DumpItems(_, _, _, _)
DumpItems(items, n, level, isObj) ==
    LET item == IF isObj
                THEN Quoted(items[n][1]) \o <<":", " ">> \o Dumps(items[n][2], level)
                ELSE Dumps(items[n], level)
    IN  Indent(level) \o item \o
        (IF n = Len(items) THEN <<>>
         ELSE <<",">> \o DumpItems(items, n + 1, level, isObj))

Dumps(value, level) ==
    CASE value.t = "str" -> Quoted(value.v)
      [] value.t = "num" -> value.v
      [] value.t = "arr" ->
            IF value.v = <<>> THEN <<"[", "]">>
            ELSE <<"[">> \o DumpItems(value.v, 1, level + 1, FALSE)
                         \o Indent(level) \o <<"]">>
      [] value.t = "obj" ->
            IF value.v = <<>> THEN <<"{", "}">>
            ELSE <<"{">> \o DumpItems(value.v, 1, level + 1, TRUE)
                         \o Indent(level) \o <<"}">>

json_dumps(value) == Dumps(value, 0)

\* ----------------------------------------------------------- pd.DataFrame

\* A slip: the columns of the first record alone.
UnionKeysFirstOnly(records, columns) ==
    IF records = <<>> THEN columns ELSE DictKeys(Head(records).v)

\* The keys of the records in order of first appearance: the columns of
\* pd.DataFrame(json_objects).
RECURSIVE UnionKeys(_, _)
UnionKeys(records, columns) ==
    IF records = <<>> THEN columns
    ELSE LET keys == DictKeys(Head(records).v)
             fresh == SelectSeq(keys,
                          LAMBDA k : \A n \in 1..Len(columns) : columns[n] # k)
         IN  UnionKeys(Tail(records), columns \o fresh)

\* A cell of a row: the record's value in the column, or missing (NaN, which
\* to_csv writes as an empty field).
Missing == [t |-> "nan", v |-> <<>>]

Cell(record, column) ==
    IF DictHas(record.v, column) THEN DictGet(record.v, column) ELSE Missing

\* What df.to_csv(sep='|', index=False) writes of pd.DataFrame(json_objects):
\* the header of column names and one row a record.  The table is kept as
\* rows of cells; the text pandas gives a cell is not modelled.
DataFrameCsv(records) ==
    LET columns == UnionKeys(records, <<>>)
    IN  [columns |-> columns,
         rows |-> [n \in 1..Len(records) |->
                      [c \in 1..Len(columns) |-> Cell(records[n], columns[c])]]]

\* ------------------------------------------------------------------- main

NoTable == [columns |-> <<>>, rows |-> <<>>]
NoFile == [present |-> FALSE, data |-> <<>>]
NoCsv == [present |-> FALSE, data |-> NoTable]
File(data) == [present |-> TRUE, data |-> data]

\* The output directory before any run: absent.
NoDirectory == [dir |-> FALSE, cleaned |-> NoFile, graph |-> NoCsv, concepts |-> NoFile]

\* output_directory.mkdir(parents=True, exist_ok=True)
Mkdir(d) == [d EXCEPT !.dir = TRUE]

\* A slip: cleaned_data.json opened with 'a', the array written after what
\* the file held.
WriteCleanedAppend(d, records) ==
    [d EXCEPT !.cleaned = File(d.cleaned.data \o json_dumps(ArrVal(records)))]

\* cleaned_data.json takes json.dumps(json_objects, indent=4).
WriteCleaned(d, records) ==
    [d EXCEPT !.cleaned = File(json_dumps(ArrVal(records)))]

\* A slip: graph.csv written whether or not there is a record.
WriteGraphAlways(d, records) ==
    [d EXCEPT !.graph = File(DataFrameCsv(records))]

\* graph.csv is written when there is a record, and left alone when not.
WriteGraph(d, records) ==
    IF records # <<>> THEN [d EXCEPT !.graph = File(DataFrameCsv(records))]
    ELSE d

\* conceptual_space.json takes json.dump(conceptual_space, f, indent=4).
WriteConcepts(d, space) == [d EXCEPT !.concepts = File(json_dumps(space))]

\* What main prints, in order.
MainPrints(records) ==
    <<"saved cleaned_data.json">>
    \o (IF records # <<>> THEN <<"saved graph.csv">>
        ELSE <<"No valid JSON objects found to save to CSV.">>)
    \o <<"saved conceptual_space.json">>

\* main(input_file, output_directory) on a readable input file: the output
\* directory after it.
MainOutputs(d, input_text) ==
    LET records == extract_json_from_text(input_text)
        space == extract_conceptual_space(input_text)
    IN  WriteConcepts(WriteGraph(WriteCleaned(Mkdir(d), records), records), space)

\* A slip: the output directory made before the input file is opened.
MainMkdirFirst(d, file) ==
    IF file.readable THEN MainOutputs(d, file.content) ELSE Mkdir(d)

\* main(input_file, output_directory): open(input_file) raises before
\* anything else is done when the file cannot be read.
main(d, file) == IF file.readable THEN MainOutputs(d, file.content) ELSE d

\* ------------------------------------------------------------ input files

FileFragments == {FlatObject, OpenInString, ConceptList}

\* An input file: unreadable, or readable with a content.
Unreadable == [readable |-> FALSE, content |-> <<>>]

InputFiles ==
    {Unreadable} \cup
    {[readable |-> TRUE, content |-> Flatten(ps)] :
        ps \in SeqsUpTo(FileFragments, MaxFileParts)}

\* Lines typed at the prompt.
Lines == {"clean_json", "other"}

\* ------------------------------------------------------------------ state

VARIABLES
    parts,              \* the fragments the text was written from
    text,               \* the text given to the extractors (main: input_text)
    called,             \* the extractors that have returned
    json_objects,       \* extract_json_from_text's result
    conceptual_space,   \* extract_conceptual_space's result
    pc,                 \* where the command line is: "done" (not running),
                        \*   "input" (in input()), "cancel" (before
                        \*   signal.alarm(0)), "main" (before main)
    status,             \* how the last execution ended: "none", "ok",
                        \*   "EOFError", "OSError", "TimeoutExpired"
    alarm,              \* TRUE while the SIGALRM timer is pending
    output_filename,    \* the prompt's variable
    input_file,         \* args.input_file: the file it names
    output_directory,   \* args.output_directory: the directory it names
    console,            \* what the execution has printed
    main_calls,         \* calls of main in the execution
    last_input,         \* the input file of the previous call of main
    rerun               \* the last call of main had the input file of the
                        \*   call before it

xvars == <<parts, text, called, json_objects, conceptual_space>>

cvars == <<pc, status, alarm, output_filename, input_file, output_directory,
           console, main_calls, last_input, rerun>>

vars == <<parts, text, called, json_objects, conceptual_space, pc, status,
          alarm, output_filename, input_file, output_directory, console,
          main_calls, last_input, rerun>>

NoSpace == ObjVal(<<>>)

\* The command line before its first execution.
InitCli ==
    /\ pc = "done"
    /\ status = "none"
    /\ alarm = FALSE
    /\ output_filename = "clean_json"
    /\ input_file = Unreadable
    /\ output_directory = NoDirectory
    /\ console = <<>>
    /\ main_calls = 0
    /\ last_input = Unreadable
    /\ rerun = FALSE

\* ------------------------------------------- the extractors on their own

InitExtract ==
    /\ parts \in SeqsUpTo(Fragments, MaxFragments)
    /\ text = Flatten(parts)
    /\ called = {}
    /\ json_objects = <<>>
    /\ conceptual_space = NoSpace
    /\ InitCli

CallExtractJson ==
    /\ "json" \notin called
    /\ json_objects' = extract_json_from_text(text)
    /\ called' = called \cup {"json"}
    /\ UNCHANGED <<parts, text, conceptual_space>>
    /\ UNCHANGED cvars

CallExtractConcepts ==
    /\ "concepts" \notin called
    /\ conceptual_space' = extract_conceptual_space(text)
    /\ called' = called \cup {"concepts"}
    /\ UNCHANGED <<parts, text, json_objects>>
    /\ UNCHANGED cvars

NextExtract == CallExtractJson \/ CallExtractConcepts

SpecExtract == InitExtract /\ [][NextExtract]_vars

\* ------------------------------------------------------ the command line

Init ==
    /\ parts = <<>>
    /\ text = <<>>
    /\ called = {}
    /\ json_objects = <<>>
    /\ conceptual_space = NoSpace
    /\ InitCli

\* The script is run on an input file: the default filename is set, the
\* prompt printed, the alarm set and input() entered.
Start ==
    /\ pc = "done"
    /\ \E f \in InputFiles : input_file' = f
    /\ output_filename' = "clean_json"
    /\ console' = <<"Please enter the output filename">>
    /\ alarm' = TRUE
    /\ pc' = "input"
    /\ status' = "none"
    /\ main_calls' = 0
    /\ UNCHANGED <<output_directory, last_input, rerun>>
    /\ UNCHANGED xvars

\* input() returns a line, which output_filename takes.
ReadLine ==
    /\ pc = "input"
    /\ \E line \in Lines : output_filename' = line
    /\ pc' = "cancel"
    /\ UNCHANGED <<status, alarm, input_file, output_directory, console,
                   main_calls, last_input, rerun>>
    /\ UNCHANGED xvars

\* input() finds the end of standard input and raises EOFError, which the
\* try statement does not catch: the script ends.
EndOfInput ==
    /\ pc = "input"
    /\ pc' = "done"
    /\ status' = "EOFError"
    /\ alarm' = FALSE
    /\ UNCHANGED <<output_filename, input_file, output_directory, console,
                   main_calls, last_input, rerun>>
    /\ UNCHANGED xvars

\* signal.alarm(0)
CancelAlarm ==
    /\ pc = "cancel"
    /\ alarm' = FALSE
    /\ pc' = "main"
    /\ UNCHANGED <<status, output_filename, input_file, output_directory,
                   console, main_calls, last_input, rerun>>
    /\ UNCHANGED xvars

\* The alarm goes off and timeout_handler raises TimeoutExpired where the
\* script is: inside the try statement it is caught and the message printed,
\* anywhere else it ends the script.
timeout_handler ==
    /\ alarm
    /\ alarm' = FALSE
    /\ IF pc \in {"input", "cancel"}
       THEN /\ pc' = "main"
            /\ console' = Append(console, "Timeout reached")
            /\ UNCHANGED status
       ELSE /\ pc' = "done"
            /\ status' = "TimeoutExpired"
            /\ UNCHANGED console
    /\ UNCHANGED <<output_filename, input_file, output_directory, main_calls,
                   last_input, rerun>>
    /\ UNCHANGED xvars

\* main(args.input_file, args.output_directory), and the script ends.
RunMain ==
    /\ pc = "main"
    /\ pc' = "done"
    /\ main_calls' = main_calls + 1
    /\ last_input' = input_file
    /\ rerun' = (input_file.readable /\ last_input = input_file)
    /\ output_directory' = main(output_directory, input_file)
    /\ IF input_file.readable
       THEN /\ text' = input_file.content
            /\ json_objects' = extract_json_from_text(input_file.content)
            /\ conceptual_space' = extract_conceptual_space(input_file.content)
            /\ console' = console \o MainPrints(json_objects')
            /\ status' = "ok"
       ELSE /\ status' = "OSError"
            /\ UNCHANGED <<text, json_objects, conceptual_space, console>>
    /\ UNCHANGED <<parts, called, alarm, output_filename, input_file>>

Next ==
    \/ Start
    \/ ReadLine
    \/ EndOfInput
    \/ CancelAlarm
    \/ timeout_handler
    \/ RunMain

Spec == Init /\ [][Next]_vars

\* --------------------------------------------------- claims on the extractors

Records(n) == json_objects[n]

\* The brace-delimited matches that parse as JSON, in match order.
ParsedMatches == SelectSeq(json_pattern(text), LAMBDA m : json_loads(m).ok)

\* The pairs of a dict whose key is not k, in order.
Without(pairs, k) == SelectSeq(pairs, LAMBDA kv : kv[1] # k)

Count(s, c) == Cardinality({j \in 1..Len(s) : s[j] = c})

\* The embedded objects of the text, in order: the fragments it was written
\* from that are well-formed flat objects.
FlatObjects == Objects \ {NestedObject}

Embedded == SelectSeq(parts, LAMBDA p : p \in FlatObjects)

\* C1: for a text of free text with flat JSON objects embedded in it,
\* extract_json_from_text returns one record per embedded object, in order,
\* and no other record, whatever braces the free text or the objects'
\* string values hold.
C1_EachEmbeddedObjectOnce ==
    ("json" \in called /\ \A n \in 1..Len(parts) : parts[n] # NestedObject)
        => /\ Len(json_objects) = Len(Embedded)
           /\ \A n \in 1..Len(Embedded) :
                  /\ DictHas(Records(n).v, chunk_id)
                  /\ DictGet(Records(n).v, chunk_id)
                         = StrVal(md5_hexdigest(Embedded[n]))

C2_WitnessSameObject ==
    /\ "json" \in called
    /\ \E m, n \in 1..Len(ParsedMatches) :
           /\ ParsedMatches[m] # ParsedMatches[n]
           /\ json_loads(ParsedMatches[m]).val = json_loads(ParsedMatches[n]).val

\* The spans of the text that are an object one of whose values is an object.
NestedSpans ==
    {be \in {b \in 1..Len(text) : text[b] = "{"}
                \X {e \in 1..Len(text) : text[e] = "}"} :
        /\ be[1] < be[2]
        /\ LET r == json_loads(SubSeq(text, be[1], be[2]))
           IN  r.ok /\ \E i \in 1..Len(r.val.v) : r.val.v[i][2].t = "obj"}

\* C3: every candidate fragment ends at the first '}' after its '{', so it
\* holds one '}', its last character; no record has an object-valued field,
\* and no object of the text with an object-valued field is among the records.
C3_NestedNeverExtracted ==
    /\ \A n \in 1..Len(json_pattern(text)) :
           LET match == json_pattern(text)[n]
           IN  /\ match[1] = "{"
               /\ match[Len(match)] = "}"
               /\ Count(match, "}") = 1
    /\ "json" \in called
        => /\ \A n \in 1..Len(json_objects) : \A i \in 1..Len(Records(n).v) :
                  Records(n).v[i][2].t # "obj"
           /\ \A be \in NestedSpans : \A n \in 1..Len(json_objects) :
                  Without(Records(n).v, chunk_id)
                      # Without(json_loads(SubSeq(text, be[1], be[2])).val.v, chunk_id)

\* C3's case: the text holds an object with an object-valued field and the
\* extractor has returned, with a record from elsewhere in the text.
C3_Witness ==
    /\ "json" \in called
    /\ NestedSpans # {}
    /\ json_objects # <<>>

\* s with ", " between its members.
RECURSIVE Join(_)
Join(strs) ==
    IF strs = <<>> THEN <<>>
    ELSE IF Len(strs) = 1 THEN strs[1].v
    ELSE strs[1].v \o <<",", " ">> \o Join(Tail(strs))

HasSeparator(s) == \E j \in 1..(Len(s) - 1) : s[j] = "," /\ s[j + 1] = " "

Groups == DictGet(conceptual_space.v, all_concepts).v

\* The single key and one group per bracket-delimited match, in match order.
OneGroupPerMatch ==
    /\ DictKeys(conceptual_space.v) = <<all_concepts>>
    /\ Len(Groups) = Len(concept_pattern(text))

\* C4 as claimed: each group is the match without its first and its last
\* character, split on comma-space.
C4_OneBracketEachSide ==
    "concepts" \in called
        => /\ OneGroupPerMatch
           /\ \A n \in 1..Len(Groups) :
                  LET match == concept_pattern(text)[n]
                  IN  /\ Join(Groups[n].v) = SubSeq(match, 2, Len(match) - 1)
                      /\ \A i \in 1..Len(Groups[n].v) : ~HasSeparator(Groups[n].v[i].v)

\* C4 amended: each group is the match without every '[' and ']' at its
\* start and at its end, split on comma-space: the match is some brackets,
\* the group's strings joined by comma-space (neither starting nor ending
\* with a bracket), and some brackets.
C4_AllOuterBrackets ==
    "concepts" \in called
        => /\ OneGroupPerMatch
           /\ \A n \in 1..Len(Groups) :
                  LET match == concept_pattern(text)[n]
                      body == Join(Groups[n].v)
                  IN  /\ \E a \in 1..Len(match) :
                             /\ \A j \in 1..a : match[j] \in {"[", "]"}
                             /\ SubSeq(match, a + 1, a + Len(body)) = body
                             /\ \A j \in (a + Len(body) + 1)..Len(match) :
                                    match[j] \in {"[", "]"}
                      /\ \/ body = <<>>
                         \/ /\ body[1] \notin {"[", "]"}
                            /\ body[Len(body)] \notin {"[", "]"}
                      /\ Groups[n].t = "arr" /\ Len(Groups[n].v) >= 1
                      /\ \A i \in 1..Len(Groups[n].v) :
                             /\ Groups[n].v[i].t = "str"
                             /\ ~HasSeparator(Groups[n].v[i].v)

\* C4's case: two matches, one of them opening with two brackets and holding
\* a comma-space.
C4_Witness ==
    /\ "concepts" \in called
    /\ Len(Groups) >= 2
    /\ \E n \in 1..Len(Groups) :
           LET match == concept_pattern(text)[n]
           IN  match[2] = "[" /\ Len(Groups[n].v) >= 2

\* --------------------------------------------------- claims on main's runs

\* A step that is a call of main.
MainStep == pc = "main" /\ pc' = "done"

\* The text holds no brace-delimited match that parses as JSON.
NoValidJson(content) ==
    \A n \in 1..Len(json_pattern(content)) : ~json_loads(json_pattern(content)[n]).ok

\* What a file holds for an empty array: []
EmptyArrayText == <<"[", "]">>

\* What a file holds for the concept space of no group.
EmptySpaceText == <<"{", "\n", " ", " ", " ", " ", "\"", "a", "l", "l", " ", "c", "o", "n", "c", "e", "p", "t", "s", "\"", ":", " ", "[", "]", "\n", "}">>

\* C5: a run of main on an input with no valid JSON object ends without a
\* fault, leaves cleaned_data.json holding an empty array, does not write
\* graph.csv and prints the 'No valid JSON objects' message; on an empty
\* input, conceptual_space.json holds the single key with an empty list.
C5_NoValidJsonRun ==
    [][(MainStep /\ input_file.readable /\ NoValidJson(input_file.content))
          => /\ status' = "ok"
             /\ output_directory'.dir
             /\ output_directory'.cleaned = File(EmptyArrayText)
             /\ output_directory'.graph = output_directory.graph
             /\ \E n \in 1..Len(console') :
                    console'[n] = "No valid JSON objects found to save to CSV."
             /\ \A n \in 1..Len(console') : console'[n] # "saved graph.csv"
             /\ output_directory'.concepts.present
             /\ input_file.content = <<>>
                    => output_directory'.concepts = File(EmptySpaceText)]_vars

\* C5's case: main has run on an empty input file, and the directory holds
\* cleaned_data.json with an empty array and no graph.csv.
C5_Witness ==
    /\ pc = "done" /\ status = "ok" /\ main_calls = 1
    /\ input_file.readable /\ input_file.content = <<>>
    /\ output_directory.cleaned = File(EmptyArrayText)
    /\ ~output_directory.graph.present

\* C5's other case: a run on an input that is not empty and has no valid
\* JSON object.
C5_WitnessNotEmpty ==
    /\ pc = "done" /\ status = "ok"
    /\ input_file.content # <<>> /\ NoValidJson(input_file.content)

\* C6: a call of main on the input file content of the call before it, into
\* the same output directory, leaves every output file and the set of files
\* as the first call left them.
C6_Idempotent ==
    [][(MainStep /\ last_input = input_file)
          => output_directory' = output_directory]_vars

\* C6's case: main has run twice in a row on the same readable input holding
\* a record, so graph.csv was written twice.
C6_Witness ==
    /\ pc = "done" /\ status = "ok" /\ rerun
    /\ json_objects # <<>>
    /\ output_directory.graph.present

\* The keys of the records, as a set.
KeySet(records) ==
    UNION {{records[n].v[i][1] : i \in 1..Len(records[n].v)} : n \in 1..Len(records)}

\* The table has one row a record, in order, and a column for every key of
\* the records and for nothing else.
TableOf(table, records) ==
    /\ {table.columns[c] : c \in 1..Len(table.columns)} = KeySet(records)
    /\ Cardinality(KeySet(records)) = Len(table.columns)
    /\ Len(table.rows) = Len(records)
    /\ \A n \in 1..Len(records) :
           /\ Len(table.rows[n]) = Len(table.columns)
           /\ \A c \in 1..Len(table.columns) :
                  LET hit == {i \in 1..Len(records[n].v) :
                                 records[n].v[i][1] = table.columns[c]}
                  IN  IF hit = {} THEN table.rows[n][c] = Missing
                      ELSE \A i \in hit : table.rows[n][c] = records[n].v[i][2]

\* C7: after a completed run of main that extracted a record, the output
\* directory exists and holds cleaned_data.json with the array of the
\* records in extraction order, graph.csv with one row a record in that
\* order and the union of the records' keys as columns, and
\* conceptual_space.json with the concept space.
C7_OutputsOfARun ==
    (pc = "done" /\ status = "ok" /\ json_objects # <<>>)
        => /\ Len(json_objects) = Len(SelectSeq(json_pattern(text),
                                                LAMBDA m : json_loads(m).ok))
           /\ output_directory.dir
           /\ output_directory.cleaned.present
           /\ json_loads(output_directory.cleaned.data).ok
           /\ json_loads(output_directory.cleaned.data).val = ArrVal(json_objects)
           /\ output_directory.graph.present
           /\ TableOf(output_directory.graph.data, json_objects)
           /\ output_directory.concepts.present
           /\ json_loads(output_directory.concepts.data).ok
           /\ json_loads(output_directory.concepts.data).val = conceptual_space
           /\ Len(Groups) = Len(concept_pattern(text))

\* C7's case: a run that extracted two records with different keys.
C7_Witness ==
    /\ pc = "done" /\ status = "ok"
    /\ Len(json_objects) = 2
    /\ DictKeys(json_objects[1].v) # DictKeys(json_objects[2].v)
    /\ Len(output_directory.graph.data.columns) = 3

\* C8: every execution ends its wait by a line or by the alarm, which keeps
\* the default filename, and then runs main exactly once; TimeoutExpired
\* never ends the script.
C8_MainRunsOnce ==
    /\ status # "TimeoutExpired"
    /\ (pc = "done" /\ status # "none") => main_calls = 1
    /\ (\E n \in 1..Len(console) : console[n] = "Timeout reached")
           => output_filename = "clean_json"

\* C9: a call of main on an input file that cannot be read ends in the
\* fault, and leaves the output directory, its files and the console as
\* they were.
C9_UnreadableInput ==
    [][(MainStep /\ ~input_file.readable)
          => /\ status' = "OSError"
             /\ output_directory' = output_directory
             /\ console' = console]_vars

\* C9's case: main has failed on an unreadable input and the output
\* directory is still absent.
C9_Witness ==
    /\ pc = "done" /\ status = "OSError" /\ main_calls = 1
    /\ ~output_directory.dir

\* C10: after any runs into the directory, graph.csv, when present, has the
\* records of the present cleaned_data.json as rows, and the directory of a
\* run that found no valid JSON object has no graph.csv.
C10_FilesOfLastRun ==
    (pc = "done" /\ output_directory.dir)
        => /\ output_directory.graph.present
               => output_directory.graph.data
                      = DataFrameCsv(json_loads(output_directory.cleaned.data).val.v)
           /\ (status = "ok" /\ json_objects = <<>>)
               => ~output_directory.graph.present

====
